---- MODULE Spec2Model ----
(***************************************************************************)
(* A model of services/geminiService.ts: the three entry points           *)
(* editImage, generateImageFromPrompt and generateVideo, the shared        *)
(* helper requestImageGeneration, the response extractor and the error     *)
(* normalizer of its catch block.                                          *)
(*                                                                         *)
(* A JavaScript string is a sequence of tokens.  A token is a piece of     *)
(* text that the regular expressions and templates of the source treat as  *)
(* a unit ("data:image/", ";base64,", " ", ".png", a fixed message); the   *)
(* string it stands for is the concatenation of its tokens.  A JSON value  *)
(* that need not be a string is a record [t, s]: t is its type tag and s   *)
(* the text String(value) yields.                                          *)
(*                                                                         *)
(* The file holds two revisions of editImage.  The later one (lines 373    *)
(* to 415) delegates to requestImageGeneration and is the one modelled;    *)
(* the earlier one (lines 11 to 168) inlines the same steps in the same    *)
(* order.  The progress callback of generateVideo is taken to return       *)
(* normally.                                                               *)
(***************************************************************************)
EXTENDS Integers, Sequences, FiniteSets, TLC

VARIABLES pc, entry, args, request, nrequests, response, progress, outcome

vars == <<pc, entry, args, request, nrequests, response, progress, outcome>>

(***************************************************************************)
(* Bounds of the model.                                                    *)
(***************************************************************************)
MaxStr == 3
MaxPad == 1
MaxParts == 2
MaxPrompt == 2

RECURSIVE SeqsUpTo(_, _)
SeqsUpTo(S, n) ==
  IF n = 0 THEN {<<>>}
  ELSE LET shorter == SeqsUpTo(S, n - 1)
       IN  shorter \cup {Append(s, x) : s \in {t \in shorter : Len(t) = n - 1}, x \in S}

(***************************************************************************)
(* JSON values.                                                            *)
(***************************************************************************)
Undef == [t |-> "undef", s |-> <<>>]
Null == [t |-> "null", s |-> <<>>]
Str(s) == [t |-> "str", s |-> s]
Num(n) == [t |-> "num", s |-> <<ToString(n)>>]

\* JavaScript truthiness of a value: undefined, null, "" and 0 are falsy.
Truthy(v) ==
  \/ v.t = "str" /\ v.s # <<>>
  \/ v.t = "num" /\ v.s # <<"0">>

\* typeof v === 'string' && v.length > 0
NonEmptyString(v) == v.t = "str" /\ v.s # <<>>

(***************************************************************************)
(* Tokens of the texts the regular expressions scan.                       *)
(***************************************************************************)
DATA == "data:image/"
B64 == ";base64,"
HTTP == "https://"
ImageExt == {".png"}
VideoExt == {".mp4"}

\* the class [^\s"'] : every token but white space and the quote
NotSpaceQuote(c) == c \notin {" ", "\"", "'"}
\* the class [^;] : every token but the one that starts with a semicolon
NotSemicolon(c) == c # B64

\* The end of the longest run s[from..k] within the class [^\s"'] (from - 1
\* when the run is empty): what the greedy [^\s"']+ consumes.
RunEnd(s, from) ==
  LET stops == {k \in from..Len(s) : ~NotSpaceQuote(s[k])}
  IN  IF stops = {} THEN Len(s)
      ELSE (CHOOSE k \in stops : \A j \in stops : k <= j) - 1

\* /data:image\/[^;]+;base64,([^\s"']+)/ tried at position i: the index of
\* the match's last token, or 0 when there is no match at i.
Base64MatchAt(s, i) ==
  IF s[i] # DATA THEN 0
  ELSE LET semis == {j \in (i + 1)..Len(s) : ~NotSemicolon(s[j])}
       IN  IF semis = {} THEN 0
           ELSE LET j == CHOOSE k \in semis : \A m \in semis : k <= m
                IN  IF j >= i + 2 /\ RunEnd(s, j + 1) >= j + 1
                    THEN RunEnd(s, j + 1) ELSE 0

\* A mutation of Base64Match: capture group 1 (the payload) instead of the whole match.
Base64Group1(s) ==
  LET starts == {i \in 1..Len(s) : Base64MatchAt(s, i) > 0}
  IN  IF starts = {} THEN Null
      ELSE LET i == CHOOSE k \in starts : \A m \in starts : k <= m
               semis == {j \in (i + 1)..Len(s) : ~NotSemicolon(s[j])}
               j == CHOOSE k \in semis : \A m \in semis : k <= m
           IN  Str(SubSeq(s, j + 1, Base64MatchAt(s, i)))

\* String.prototype.match with that expression: element 0 of the leftmost
\* match, or Null.
Base64Match(s) ==
  LET starts == {i \in 1..Len(s) : Base64MatchAt(s, i) > 0}
  IN  IF starts = {} THEN Null
      ELSE LET i == CHOOSE k \in starts : \A m \in starts : k <= m
           IN  Str(SubSeq(s, i, Base64MatchAt(s, i)))

\* /(https?:\/\/[^\s"']+\.(ext))/i tried at position i: greedy, so the match
\* ends at the last extension of the run that has a token between it and
\* the scheme; 0 when there is no match at i.
UrlMatchAt(s, i, exts) ==
  IF s[i] # HTTP THEN 0
  ELSE LET ends == {e \in (i + 2)..RunEnd(s, i + 1) : s[e] \in exts}
       IN  IF ends = {} THEN 0
           ELSE CHOOSE e \in ends : \A m \in ends : m <= e

UrlMatch(s, exts) ==
  LET starts == {i \in 1..Len(s) : UrlMatchAt(s, i, exts) > 0}
  IN  IF starts = {} THEN Null
      ELSE LET i == CHOOSE k \in starts : \A m \in starts : k <= m
           IN  Str(SubSeq(s, i, UrlMatchAt(s, i, exts)))

(***************************************************************************)
(* Request building.                                                       *)
(***************************************************************************)
\* `data:${mimeType};base64,${base64}`
DataUri(mimeType, base64) == <<"data:">> \o mimeType \o <<B64>> \o base64

ImagePart(url) == [type |-> "image_url", value |-> url]
TextPart(text) == [type |-> "text", value |-> text]

MaskPrefix == "Apply the following instruction only to the masked area of the image: \""
MaskSuffix == "\". Preserve the unmasked area."

\* A mutation of FullPrompt: the template is applied to every non-null mask.
FullPromptNonNull(prompt, maskBase64) ==
  IF maskBase64.t # "null" THEN <<MaskPrefix>> \o prompt \o <<MaskSuffix>> ELSE prompt

\* let fullPrompt = prompt; if (maskBase64) fullPrompt = `Apply ... "${prompt}". Preserve ...`
FullPrompt(prompt, maskBase64) ==
  IF Truthy(maskBase64) THEN <<MaskPrefix>> \o prompt \o <<MaskSuffix>> ELSE prompt

\* A mutation of EditContent: the secondary image is pushed before the mask.
EditContentSecondaryFirst(a) ==
  <<ImagePart(DataUri(a.mimeType, a.base64ImageData))>>
  \o (IF a.secondaryImage.present
      THEN <<ImagePart(DataUri(a.secondaryImage.mimeType, a.secondaryImage.base64))>>
      ELSE <<>>)
  \o (IF Truthy(a.maskBase64)
      THEN <<ImagePart(DataUri(<<"image/png">>, a.maskBase64.s))>> ELSE <<>>)
  \o <<TextPart(FullPrompt(a.prompt, a.maskBase64))>>

\* The content array editImage builds, push by push.
EditContent(a) ==
  <<ImagePart(DataUri(a.mimeType, a.base64ImageData))>>
  \o (IF Truthy(a.maskBase64)
      THEN <<ImagePart(DataUri(<<"image/png">>, a.maskBase64.s))>> ELSE <<>>)
  \o (IF a.secondaryImage.present
      THEN <<ImagePart(DataUri(a.secondaryImage.mimeType, a.secondaryImage.base64))>>
      ELSE <<>>)
  \o <<TextPart(FullPrompt(a.prompt, a.maskBase64))>>

\* The content array generateImageFromPrompt builds.
PromptContent(a) == <<TextPart(a.prompt)>>

\* The content array generateVideo builds.
VideoContent(a) ==
  (IF a.image.present
   THEN <<ImagePart(DataUri(a.image.mimeType, a.image.base64))>> ELSE <<>>)
  \o <<TextPart(<<"Generate a video with aspect ratio ", a.aspectRatio, ". ">> \o a.prompt)>>

ImageModel == "google/gemini-2.5-flash-image"
VideoModel == "veo-2.0-generate-001"

\* The body of the POST to /chat/completions.
RequestBody(model, content) == [model |-> model, content |-> content]

InitializingStatus == "Initializing video generation..."
ProcessingStatus == "Processing video generation..."

(***************************************************************************)
(* The arguments the entry points are called with.                         *)
(***************************************************************************)
PromptTokens == {"a"}
Prompts == SeqsUpTo(PromptTokens, MaxPrompt)
NoImage == [present |-> FALSE, base64 |-> <<>>, mimeType |-> <<>>]
SomeImage == [present |-> TRUE, base64 |-> <<"SSSS">>, mimeType |-> <<"image/webp">>]
Masks == {Null, Str(<<>>), Str(<<"MMMM">>)}

EditArgs ==
  [base64ImageData : {<<"IIII">>}, mimeType : {<<"image/jpeg">>}, prompt : Prompts,
   maskBase64 : Masks, secondaryImage : {NoImage, SomeImage}]
PromptArgs == [prompt : Prompts]
VideoArgs == [prompt : Prompts, image : {NoImage, SomeImage}, aspectRatio : {"16:9", "9:16"}]

(***************************************************************************)
(* The responses the remote endpoint may give.  The body is untyped JSON:  *)
(* any field may be missing or hold a value of another type.               *)
(***************************************************************************)
NullEntry == [t |-> "null", type |-> "", url |-> Undef]
Entry(type, url) == [t |-> "obj", type |-> type, url |-> url]
NullPart == [t |-> "null", type |-> "", url |-> Undef, text |-> Undef]
Part(type, url, text) == [t |-> "obj", type |-> type, url |-> url, text |-> text]

NoImages == [t |-> "undef", items |-> <<>>]
NonArrayImages == [t |-> "other", items |-> <<>>]
ImagesArray(items) == [t |-> "array", items |-> items]

NoContent == [t |-> "undef", s |-> <<>>, parts |-> <<>>]
OtherContent == [t |-> "other", s |-> <<>>, parts |-> <<>>]
StringContent(s) == [t |-> "str", s |-> s, parts |-> <<>>]
ArrayContent(parts) == [t |-> "array", s |-> <<>>, parts |-> parts]

NoMessage == [present |-> FALSE, images |-> NoImages, content |-> NoContent]
Message(images, content) == [present |-> TRUE, images |-> images, content |-> content]
NoChoice == [present |-> FALSE, finish_reason |-> "", message |-> NoMessage]
Choice(finish, message) == [present |-> TRUE, finish_reason |-> finish, message |-> message]
NoErrorField == [present |-> FALSE, code |-> 0, message |-> Undef]
ErrorField(code, message) == [present |-> TRUE, code |-> code, message |-> message]

InvalidBody == [json |-> "invalid", error |-> NoErrorField, choice |-> NoChoice]
NullBody == [json |-> "null", error |-> NoErrorField, choice |-> NoChoice]
ObjectBody(error, choice) == [json |-> "object", error |-> error, choice |-> choice]

HttpResponse(status, body) == [kind |-> "http", isError |-> FALSE, status |-> status, body |-> body]
Rejection(isError) == [kind |-> "reject", isError |-> isError, status |-> 0, body |-> InvalidBody]

\* response.ok
Ok(r) == r.status >= 200 /\ r.status <= 299

\* Texts that JSON.parse accepts, with what they parse to.
J429 == "{\"error\":{\"code\":429,\"message\":\"Resource exhausted\"}}"
J500 == "{\"error\":{\"code\":500,\"message\":\"Internal error\"}}"
J400 == "{\"error\":{\"code\":400,\"message\":\"Invalid argument\"}}"
JNoMessage == "{\"error\":{\"code\":429}}"
JNoError == "{\"ok\":true}"
JsonTexts ==
  (J429 :> ErrorField(429, Str(<<"Resource exhausted">>)))
  @@ (J500 :> ErrorField(500, Str(<<"Internal error">>)))
  @@ (J400 :> ErrorField(400, Str(<<"Invalid argument">>)))
  @@ (JNoMessage :> ErrorField(429, Undef))
  @@ (JNoError :> NoErrorField)

U1 == <<"https://cdn.test/1.png">>
U2 == <<"https://cdn.test/2.png">>

ContentTokens == {DATA, "png", B64, "AAAA", " ", "\"", HTTP, ".png", ".mp4"}
\* the substring whose extraction the specification gives as an example
Embedded == <<DATA, "png", B64, "AAAA">>
ContentStrings ==
  SeqsUpTo(ContentTokens, MaxStr)
  \cup {pre \o Embedded \o post : pre \in SeqsUpTo(ContentTokens, MaxPad),
                                  post \in SeqsUpTo(ContentTokens, MaxPad)}

Entries ==
  {NullEntry, Entry("image_url", Str(U1)), Entry("image_url", Undef),
   Entry("image_url", Num(7)), Entry("text", Str(U1))}
ImagesValues ==
  {NoImages, NonArrayImages, ImagesArray(<<>>)}
  \cup {ImagesArray(<<e>>) : e \in Entries}
  \cup {ImagesArray(<<Entry("image_url", Str(U1)), Entry("image_url", Str(U2))>>)}
ImagesWithStrings ==
  {NoImages, ImagesArray(<<Entry("image_url", Str(U1))>>), ImagesArray(<<Entry("image_url", Num(7))>>),
   ImagesArray(<<Entry("text", Str(U1))>>)}

PartValues ==
  {NullPart,
   Part("image_url", Str(U1), Undef), Part("image_url", Str(U2), Undef),
   Part("image_url", Undef, Undef), Part("image_url", Num(7), Undef),
   Part("text", Undef, Str(<<"t">>)), Part("text", Undef, Str(<<>>)),
   Part("other", Undef, Undef)}

FinishReasons == {"", "stop", "content_filter"}

ErrorMessages ==
  {Undef, Num(7), Str(<<>>), Str(<<"Rate limit exceeded">>)}
  \cup {Str(<<j>>) : j \in DOMAIN JsonTexts}
ErrorCodes == {429, 500, 400}
Statuses == {200, 429, 500, 400}

(***************************************************************************)
(* Errors.  new Error(x) converts x to a string; a TypeError and the       *)
(* SyntaxError of response.json() are Errors with a message of their own.  *)
(***************************************************************************)
NewError(v) == [isError |-> TRUE, message |-> Str(v.s)]
TypeErrorOfNull == NewError(Str(<<"Cannot read properties of null">>))
JsonSyntaxError == NewError(Str(<<"Unexpected token in JSON">>))
FetchFailure(isError) == [isError |-> isError, message |-> Str(<<"Failed to fetch">>)]

RateLimitMessage ==
  <<"You've likely exceeded the request limit. Please wait a moment before trying again.">>
ServerErrorMessage ==
  <<"An unexpected server error occurred. This might be a temporary issue. Please try again in a few moments.">>
UnknownImageError == <<"An unknown error occurred while communicating with the API.">>
UnknownVideoError == <<"An unknown error occurred during video generation.">>
RefusalMessage ==
  "The model did not return an image. It might have refused the request. Please try a different image or prompt."
SafetyMessage == "The request was blocked for safety reasons. Please modify your prompt or image."
NoVideoLink == <<"Video generation completed, but no download link was found in the response.">>

\* JSON.parse(errorMessage): whether it returns, and the error field of what it returns.
JSONParse(s) ==
  IF Len(s) = 1 /\ s[1] \in DOMAIN JsonTexts
  THEN [ok |-> TRUE, error |-> JsonTexts[s[1]]]
  ELSE [ok |-> FALSE, error |-> NoErrorField]

Returned(imageUrl, text) ==
  [kind |-> "returned", imageUrl |-> imageUrl, text |-> text, videoUrl |-> Undef, message |-> Undef]
ReturnedVideo(url) ==
  [kind |-> "returned", imageUrl |-> Undef, text |-> Undef, videoUrl |-> url, message |-> Undef]
Threw(message) ==
  [kind |-> "threw", imageUrl |-> Undef, text |-> Undef, videoUrl |-> Undef, message |-> message]

(***************************************************************************)
(* The response extractor of requestImageGeneration.  r is the result      *)
(* under construction, with threw set once a property of null was read.    *)
(***************************************************************************)
EmptyResult == [imageUrl |-> Null, text |-> Null, threw |-> FALSE]

\* if (messageImages && Array.isArray(messageImages) && messageImages.length > 0) ...
ImagesRule(r, images) ==
  IF images.t = "array" /\ Len(images.items) > 0
  THEN LET imageData == images.items[1]
       IN  IF imageData.t = "null" THEN [r EXCEPT !.threw = TRUE]
           ELSE IF imageData.type = "image_url" /\ Truthy(imageData.url)
                THEN [r EXCEPT !.imageUrl = imageData.url]
                ELSE r
  ELSE r

\* if (typeof messageContent === 'string') result.text = messageContent
TextRule(r, content) ==
  IF ~r.threw /\ content.t = "str" THEN [r EXCEPT !.text = Str(content.s)] ELSE r

\* One iteration of the loop over the parts of an array content.
PartStep(r, part) ==
  IF part.t = "null" THEN [r EXCEPT !.threw = TRUE]
  ELSE IF part.type = "image_url" /\ Truthy(part.url)
       THEN [r EXCEPT !.imageUrl = part.url]
       ELSE IF part.type = "text" /\ Truthy(part.text)
            THEN [r EXCEPT !.text =
                    Str((IF Truthy(r.text) THEN r.text.s \o <<"\n">> ELSE <<>>) \o part.text.s)]
            ELSE r

RECURSIVE ScanParts(_, _, _)
ScanParts(r, parts, i) ==
  IF i > Len(parts) \/ r.threw THEN r
  ELSE ScanParts(PartStep(r, parts[i]), parts, i + 1)

\* if (!result.imageUrl && Array.isArray(messageContent)) for (const part of messageContent) ...
PartsRule(r, content) ==
  IF ~r.threw /\ ~Truthy(r.imageUrl) /\ content.t = "array"
  THEN ScanParts(r, content.parts, 1)
  ELSE r

\* A mutation of RegexRule: the scan is not guarded by !result.imageUrl.
RegexRuleUnguarded(r, content) ==
  IF ~r.threw /\ content.t = "str"
  THEN LET base64Match == Base64Match(content.s)
           urlMatch == UrlMatch(content.s, ImageExt)
       IN  IF base64Match # Null THEN [r EXCEPT !.imageUrl = base64Match]
           ELSE IF urlMatch # Null THEN [r EXCEPT !.imageUrl = urlMatch]
                ELSE r
  ELSE r

\* if (!result.imageUrl && typeof messageContent === 'string') { base64Match ...; urlMatch ... }
RegexRule(r, content) ==
  IF ~r.threw /\ ~Truthy(r.imageUrl) /\ content.t = "str"
  THEN LET base64Match == Base64Match(content.s)
           urlMatch == UrlMatch(content.s, ImageExt)
       IN  IF base64Match # Null THEN [r EXCEPT !.imageUrl = base64Match]
           ELSE IF urlMatch # Null THEN [r EXCEPT !.imageUrl = urlMatch]
                ELSE r
  ELSE r

\* The four rules in the order of the source.
Extract(message) ==
  RegexRule(
    PartsRule(
      TextRule(ImagesRule(EmptyResult, message.images), message.content),
      message.content),
    message.content)

\* JSON.stringify(data.choices?.[0]?.message)
StringifyMessage(message) ==
  IF message.present THEN "{...message...}" ELSE "undefined"

\* A mutation of FailureMessage: the finish reason is not consulted.
FailureMessageNoSafety(r, choice) ==
  IF Truthy(r.text)
  THEN <<"The model responded: \"">> \o r.text.s \o <<"\"">>
  ELSE <<RefusalMessage, " (Response: ", StringifyMessage(choice.message), ")">>

\* The message thrown when no rule produced an image reference.
FailureMessage(r, choice) ==
  IF Truthy(r.text)
  THEN <<"The model responded: \"">> \o r.text.s \o <<"\"">>
  ELSE <<IF choice.finish_reason = "content_filter" THEN SafetyMessage ELSE RefusalMessage,
         " (Response: ", StringifyMessage(choice.message), ")">>

\* What a try block ends with: a value to return or an exception raised.
Value(v) == [raised |-> FALSE, error |-> NewError(Undef), value |-> v]
Raise(e) == [raised |-> TRUE, error |-> e, value |-> Threw(Undef)]

\* errorData.error?.message || `<prefix> ${response.status}`, errorData being
\* the decoded body or {} when it does not decode
ErrorDataMessage(resp, prefix) ==
  IF resp.body.json = "object" /\ resp.body.error.present /\ Truthy(resp.body.error.message)
  THEN resp.body.error.message
  ELSE Str(<<prefix, ToString(resp.status)>>)

\* The try block of requestImageGeneration from the point where fetch settles.
ImageTry(resp) ==
  IF resp.kind = "reject" THEN Raise(FetchFailure(resp.isError))
  ELSE IF ~Ok(resp)
       THEN IF resp.body.json = "null" THEN Raise(TypeErrorOfNull)
            ELSE Raise(NewError(ErrorDataMessage(resp, "API request failed with status ")))
       ELSE IF resp.body.json = "invalid" THEN Raise(JsonSyntaxError)
            ELSE IF resp.body.json = "null" THEN Raise(TypeErrorOfNull)
                 ELSE LET choice == resp.body.choice
                          r == Extract(choice.message)
                      IN  IF r.threw THEN Raise(TypeErrorOfNull)
                          ELSE IF ~Truthy(r.imageUrl)
                               THEN Raise(NewError(Str(FailureMessage(r, choice))))
                               ELSE Value(Returned(r.imageUrl, r.text))

\* The catch block of requestImageGeneration: the error normalizer.
ImageCatch(error) ==
  IF error.isError
  THEN LET parsed == JSONParse(error.message.s)
       IN  IF parsed.ok /\ parsed.error.present /\ Truthy(parsed.error.message)
           THEN IF parsed.error.code = 429 THEN Threw(Str(RateLimitMessage))
                ELSE IF parsed.error.code = 500 THEN Threw(Str(ServerErrorMessage))
                     ELSE Threw(NewError(parsed.error.message).message)
           ELSE Threw(error.message)
  ELSE Threw(Str(UnknownImageError))

\* requestImageGeneration from the point where fetch settles to its end.
ImageOutcome(resp) ==
  LET t == ImageTry(resp) IN IF t.raised THEN ImageCatch(t.error) ELSE t.value

(***************************************************************************)
(* generateVideo from the point where fetch settles.                       *)
(***************************************************************************)
\* A mutation of ProgressAfter: the second status is reported for every response.
ProgressAfterAlways(p, resp) == Append(p, ProcessingStatus)

\* onProgress("Processing video generation...") stands after the response.ok check.
ProgressAfter(p, resp) ==
  IF resp.kind = "http" /\ Ok(resp) THEN Append(p, ProcessingStatus) ELSE p

VideoTry(resp) ==
  IF resp.kind = "reject" THEN Raise(FetchFailure(resp.isError))
  ELSE IF ~Ok(resp)
       THEN IF resp.body.json = "null" THEN Raise(TypeErrorOfNull)
            ELSE Raise(NewError(ErrorDataMessage(resp,
                         "Video generation API request failed with status ")))
       ELSE IF resp.body.json = "invalid" THEN Raise(JsonSyntaxError)
            ELSE IF resp.body.json = "null" THEN Raise(TypeErrorOfNull)
                 ELSE LET messageContent == resp.body.choice.message.content
                          urlMatch == IF messageContent.t = "str"
                                      THEN UrlMatch(messageContent.s, VideoExt) ELSE Null
                      IN  IF urlMatch = Null THEN Raise(NewError(Str(NoVideoLink)))
                          ELSE Value(ReturnedVideo(urlMatch))

VideoCatch(error) ==
  IF error.isError
  THEN LET parsed == JSONParse(error.message.s)
       IN  IF parsed.ok /\ parsed.error.present /\ Truthy(parsed.error.message)
           THEN Threw(NewError(parsed.error.message).message)
           ELSE Threw(error.message)
  ELSE Threw(Str(UnknownVideoError))

VideoOutcome(resp) ==
  LET t == VideoTry(resp) IN IF t.raised THEN VideoCatch(t.error) ELSE t.value

(***************************************************************************)
(* The state machine of one invocation of an entry point.                  *)
(*   pc        idle, awaiting (fetch issued), settled (fetch resolved or   *)
(*             rejected), done (the promise of the entry point settled)    *)
(*   entry     the entry point invoked                                     *)
(*   args      its arguments, while the request is in flight               *)
(*   request   the request in flight                                       *)
(*   nrequests the number of calls of fetch                                *)
(*   response  what fetch settled with                                     *)
(*   progress  the statuses onProgress was called with, in order           *)
(*   outcome   what the entry point returned or threw                      *)
(***************************************************************************)
NoValue == <<>>

Init ==
  /\ pc = "idle"
  /\ entry = "none"
  /\ args = NoValue
  /\ request = NoValue
  /\ nrequests = 0
  /\ response = NoValue
  /\ progress = <<>>
  /\ outcome = NoValue

\* The call of fetch: one request leaves.
Fetch(body) ==
  /\ request' = body
  /\ nrequests' = nrequests + 1
  /\ pc' = "awaiting"

editImage ==
  /\ pc = "idle"
  /\ \E a \in EditArgs :
       /\ entry' = "editImage"
       /\ args' = a
       /\ Fetch(RequestBody(ImageModel, EditContent(a)))
  /\ UNCHANGED <<response, progress, outcome>>

generateImageFromPrompt ==
  /\ pc = "idle"
  /\ \E a \in PromptArgs :
       /\ entry' = "generateImageFromPrompt"
       /\ args' = a
       /\ Fetch(RequestBody(ImageModel, PromptContent(a)))
  /\ UNCHANGED <<response, progress, outcome>>

generateVideo ==
  /\ pc = "idle"
  /\ \E a \in VideoArgs :
       /\ entry' = "generateVideo"
       /\ args' = a
       /\ progress' = Append(progress, InitializingStatus)
       /\ Fetch(RequestBody(VideoModel, VideoContent(a)))
  /\ UNCHANGED <<response, outcome>>

\* fetch resolves: the response is in.  Neither the arguments nor the
\* request are read again.
Receive(r) ==
  /\ response' = r
  /\ pc' = "settled"
  /\ args' = NoValue
  /\ request' = NoValue
  /\ UNCHANGED <<entry, nrequests, progress, outcome>>

\* fetch resolves with a 2xx response whose message content is a string.
FetchResolveString ==
  /\ pc = "awaiting"
  /\ \E f \in {"stop", "content_filter"}, i \in ImagesWithStrings, s \in ContentStrings :
       Receive(HttpResponse(200, ObjectBody(NoErrorField, Choice(f, Message(i, StringContent(s))))))

\* fetch resolves with a 2xx response whose message content is a list of parts.
FetchResolveParts ==
  /\ pc = "awaiting"
  /\ \E f \in FinishReasons, i \in ImagesValues, ps \in SeqsUpTo(PartValues, MaxParts) :
       Receive(HttpResponse(200, ObjectBody(NoErrorField, Choice(f, Message(i, ArrayContent(ps))))))

\* fetch resolves with a 2xx response that has no content, a content of
\* another type, or no message at all.
FetchResolveOther ==
  /\ pc = "awaiting"
  /\ \E f \in FinishReasons :
       \/ \E i \in ImagesValues, c \in {NoContent, OtherContent} :
            Receive(HttpResponse(200, ObjectBody(NoErrorField, Choice(f, Message(i, c)))))
       \/ Receive(HttpResponse(200, ObjectBody(NoErrorField, Choice(f, NoMessage))))

\* fetch resolves with an error body, or with a body that does not decode,
\* is null or is an empty object, under any status.
FetchResolveError ==
  /\ pc = "awaiting"
  /\ \/ \E st \in Statuses \ {200}, c \in ErrorCodes, m \in ErrorMessages :
          Receive(HttpResponse(st, ObjectBody(ErrorField(c, m), NoChoice)))
     \/ \E st \in Statuses, b \in {InvalidBody, NullBody, ObjectBody(NoErrorField, NoChoice)} :
          Receive(HttpResponse(st, b))

\* fetch rejects: the request never got an answer.
FetchReject ==
  /\ pc = "awaiting"
  /\ \E e \in BOOLEAN : Receive(Rejection(e))

\* A mutation of requestImageGeneration: a failed call is sent again.
requestImageGenerationRetry ==
  /\ pc = "settled"
  /\ entry \in {"editImage", "generateImageFromPrompt"}
  /\ IF ImageOutcome(response).kind = "threw" /\ nrequests < 2
     THEN /\ pc' = "awaiting"
          /\ nrequests' = nrequests + 1
          /\ UNCHANGED outcome
     ELSE /\ pc' = "done"
          /\ outcome' = ImageOutcome(response)
          /\ UNCHANGED nrequests
  /\ UNCHANGED <<entry, args, request, response, progress>>

\* The rest of requestImageGeneration once fetch has settled.
requestImageGeneration ==
  /\ pc = "settled"
  /\ entry \in {"editImage", "generateImageFromPrompt"}
  /\ outcome' = ImageOutcome(response)
  /\ pc' = "done"
  /\ UNCHANGED <<entry, args, request, nrequests, response, progress>>

\* The rest of generateVideo once fetch has settled.
generateVideoResume ==
  /\ pc = "settled"
  /\ entry = "generateVideo"
  /\ progress' = ProgressAfter(progress, response)
  /\ outcome' = VideoOutcome(response)
  /\ pc' = "done"
  /\ UNCHANGED <<entry, args, request, nrequests, response>>

Next ==
  \/ editImage
  \/ generateImageFromPrompt
  \/ generateVideo
  \/ FetchResolveString
  \/ FetchResolveParts
  \/ FetchResolveOther
  \/ FetchResolveError
  \/ FetchReject
  \/ requestImageGeneration
  \/ generateVideoResume

Spec == Init /\ [][Next]_vars

(***************************************************************************)
(* Notions the properties below are stated with.                           *)
(***************************************************************************)
ImageEntry == entry \in {"editImage", "generateImageFromPrompt"}
Finished == pc = "done"
\* the response is HTTP-successful and its body decodes to an object
Successful == response.kind = "http" /\ Ok(response) /\ response.body.json = "object"
TheChoice == response.body.choice
TheMessage == response.body.choice.message
Contains(s, token) == \E i \in 1..Len(s) : s[i] = token
\* the positions at which the example data URI occurs in s
Occurrences(s) == {i \in 1..Len(s) : i + 3 <= Len(s) /\ SubSeq(s, i, i + 3) = Embedded}
\* the parts of an array content that carry an image reference
ImageParts(parts) ==
  {i \in 1..Len(parts) :
     parts[i].t = "obj" /\ parts[i].type = "image_url" /\ Truthy(parts[i].url)}
SentText == request.content[Len(request.content)].value
Template(p) == <<MaskPrefix>> \o p \o <<MaskSuffix>>

(***************************************************************************)
(* C1.  Whenever an image entry point returns instead of throwing, the     *)
(* result's imageUrl is a non-empty string; and an HTTP-successful         *)
(* response from which no image reference was extracted ends in a thrown   *)
(* error, never in a returned result.                                      *)
(***************************************************************************)
C1_ReturnedImageUrlIsNonEmptyString ==
  (Finished /\ ImageEntry) =>
     /\ outcome.kind = "returned" => NonEmptyString(outcome.imageUrl)
     /\ (Successful /\ ~Truthy(Extract(TheMessage).imageUrl)) => outcome.kind = "threw"

(***************************************************************************)
(* C2.  For an HTTP 429 response whose body is                             *)
(* {"error":{"code":429,"message":m}} with m a string, the error thrown    *)
(* by an image entry point has the fixed rate-limit guidance as its        *)
(* message, not the raw body message m.                                    *)
(***************************************************************************)
C2_RateLimitGuidanceOn429 ==
  (/\ Finished /\ ImageEntry
   /\ response.kind = "http" /\ response.status = 429
   /\ response.body.json = "object" /\ response.body.error.present
   /\ response.body.error.code = 429 /\ response.body.error.message.t = "str")
  => /\ outcome.kind = "threw"
     /\ outcome.message = Str(RateLimitMessage)
     /\ outcome.message # response.body.error.message

(***************************************************************************)
(* C3, as claimed.  For every HTTP-successful response from which no       *)
(* image reference can be extracted and whose first choice has             *)
(* finish_reason "content_filter", the thrown message contains the safety  *)
(* phrase, whether or not the response carried text.                       *)
(***************************************************************************)
C3_SafetyPhraseRegardlessOfText ==
  (/\ Finished /\ ImageEntry /\ Successful
   /\ TheChoice.finish_reason = "content_filter"
   /\ ~Truthy(Extract(TheMessage).imageUrl))
  => /\ outcome.kind = "threw"
     /\ Contains(outcome.message.s, SafetyMessage)

(***************************************************************************)
(* C3, amended.  For such a response whose extraction ran to its end (no   *)
(* null images entry or content part was dereferenced): if no text was     *)
(* captured the thrown message contains the safety phrase; if text was     *)
(* captured the thrown message is 'The model responded: "<text>"', with    *)
(* no safety phrase added.                                                 *)
(***************************************************************************)
C3_SafetyPhraseWhenNoText ==
  (/\ Finished /\ ImageEntry /\ Successful
   /\ TheChoice.finish_reason = "content_filter"
   /\ ~Extract(TheMessage).threw
   /\ ~Truthy(Extract(TheMessage).imageUrl))
  => /\ outcome.kind = "threw"
     /\ IF Truthy(Extract(TheMessage).text)
        THEN /\ outcome.message.s =
                  <<"The model responded: \"">> \o Extract(TheMessage).text.s \o <<"\"">>
        ELSE Contains(outcome.message.s, SafetyMessage)

C3_Witness ==
  /\ Finished /\ ImageEntry /\ Successful
  /\ TheChoice.finish_reason = "content_filter"
  /\ TheMessage.content.t = "array" /\ Len(TheMessage.content.parts) > 0
  /\ outcome.kind = "threw"
  /\ Contains(outcome.message.s, SafetyMessage)

(***************************************************************************)
(* C4.  When the content is a list of parts and the images array gave no   *)
(* image, the image reference returned is the URL of the first image part  *)
(* in list order: later image parts do not overwrite it.                   *)
(***************************************************************************)
C4_FirstImagePartWins ==
  (/\ Finished /\ ImageEntry /\ Successful
   /\ TheMessage.content.t = "array"
   /\ ~Truthy(ImagesRule(EmptyResult, TheMessage.images).imageUrl)
   /\ outcome.kind = "returned")
  => LET parts == TheMessage.content.parts
         first == CHOOSE i \in ImageParts(parts) : \A j \in ImageParts(parts) : i <= j
     IN  /\ ImageParts(parts) # {}
         /\ outcome.imageUrl = parts[first].url

(***************************************************************************)
(* C5, as claimed.  For every response whose message has both a non-empty  *)
(* images array and a string content with an embedded base64 data URI,     *)
(* the returned image reference is the URL of the images array entry, not  *)
(* the data URI of the content.                                            *)
(***************************************************************************)
C5_ImagesArrayAlwaysWins ==
  (/\ Finished /\ ImageEntry /\ Successful
   /\ TheMessage.images.t = "array" /\ Len(TheMessage.images.items) > 0
   /\ TheMessage.content.t = "str" /\ Base64Match(TheMessage.content.s) # Null
   /\ outcome.kind = "returned")
  => /\ outcome.imageUrl = TheMessage.images.items[1].url
     /\ outcome.imageUrl # Base64Match(TheMessage.content.s)

(***************************************************************************)
(* C5, amended.  When the first entry of the images array is an image      *)
(* entry (type image_url) with a truthy URL, the call returns and the      *)
(* returned image reference is that URL, whatever data URI the content     *)
(* string embeds.                                                          *)
(***************************************************************************)
C5_ImageEntryWins ==
  (/\ Finished /\ ImageEntry /\ Successful
   /\ TheMessage.images.t = "array" /\ Len(TheMessage.images.items) > 0
   /\ TheMessage.images.items[1].t = "obj"
   /\ TheMessage.images.items[1].type = "image_url"
   /\ Truthy(TheMessage.images.items[1].url)
   /\ TheMessage.content.t = "str" /\ Base64Match(TheMessage.content.s) # Null)
  => /\ outcome.kind = "returned"
     /\ outcome.imageUrl = TheMessage.images.items[1].url

C5_Witness ==
  /\ Finished /\ ImageEntry /\ Successful
  /\ TheMessage.images.t = "array" /\ Len(TheMessage.images.items) > 0
  /\ TheMessage.content.t = "str" /\ Base64Match(TheMessage.content.s) # Null
  /\ outcome.kind = "returned"
  /\ outcome.imageUrl = Str(U1)

(***************************************************************************)
(* C6, as claimed.  In editImage the text part sent is the mask template   *)
(* around the prompt for every non-null mask, the empty string included,   *)
(* and the prompt verbatim when the mask is null.                          *)
(***************************************************************************)
C6_TemplateForEveryNonNullMask ==
  (pc = "awaiting" /\ entry = "editImage") =>
     /\ args.maskBase64.t # "null" => SentText = Template(args.prompt)
     /\ args.maskBase64.t = "null" => SentText = args.prompt

(***************************************************************************)
(* C6, amended.  The text part sent is the mask template with the prompt   *)
(* interpolated once when the mask is a non-empty string, and the prompt   *)
(* verbatim when the mask is null or the empty string.                     *)
(***************************************************************************)
C6_TemplateForNonEmptyMask ==
  (pc = "awaiting" /\ entry = "editImage") =>
     /\ request.content[Len(request.content)].type = "text"
     /\ NonEmptyString(args.maskBase64) => SentText = Template(args.prompt)
     /\ ~NonEmptyString(args.maskBase64) => SentText = args.prompt

C6_Witness ==
  /\ pc = "awaiting" /\ entry = "editImage"
  /\ NonEmptyString(args.maskBase64)
  /\ Len(args.prompt) > 0
  /\ SentText = Template(args.prompt)

(***************************************************************************)
(* C7, as claimed.  generateVideo calls the progress callback exactly      *)
(* twice per call: with the initializing status before the request is      *)
(* sent and with the processing status after a response was received,      *)
(* whatever the response.                                                  *)
(***************************************************************************)
C7_ProgressTwiceAlways ==
  entry = "generateVideo" =>
     /\ pc \in {"awaiting", "settled"} => progress = <<InitializingStatus>>
     /\ Finished => progress = <<InitializingStatus, ProcessingStatus>>

(***************************************************************************)
(* C7, amended.  The callback is called with the initializing status       *)
(* before the request is sent; it is called a second time, with the        *)
(* processing status, only after a 2xx response was received.  After a     *)
(* non-2xx response or a rejected fetch it has been called exactly once.   *)
(***************************************************************************)
C7_ProgressTwiceOn2xx ==
  /\ pc = "idle" => progress = <<>>
  /\ entry = "generateVideo" =>
       /\ pc \in {"awaiting", "settled"} => progress = <<InitializingStatus>> /\ nrequests = 1
       /\ Finished =>
            progress = IF response.kind = "http" /\ Ok(response)
                       THEN <<InitializingStatus, ProcessingStatus>>
                       ELSE <<InitializingStatus>>

C7_Witness ==
  /\ Finished /\ entry = "generateVideo"
  /\ outcome.kind = "threw"
  /\ progress = <<InitializingStatus, ProcessingStatus>>

(***************************************************************************)
(* C8.  Every invocation of an entry point issues exactly one HTTP         *)
(* request and ends in exactly one of a returned result or a thrown error  *)
(* with a string message; after a failure no second request is issued and  *)
(* no partial result is returned.                                          *)
(***************************************************************************)
C8_OneRequestOneOutcome ==
  /\ nrequests <= 1
  /\ pc # "idle" => nrequests = 1
  /\ pc \in {"idle", "awaiting", "settled"} => outcome = NoValue
  /\ Finished =>
       /\ outcome.kind \in {"returned", "threw"}
       /\ outcome.kind = "threw" =>
            /\ outcome.message.t = "str"
            /\ outcome.imageUrl = Undef /\ outcome.text = Undef /\ outcome.videoUrl = Undef
       /\ outcome.kind = "returned" =>
            /\ outcome.message = Undef
            /\ ImageEntry => Truthy(outcome.imageUrl)
            /\ entry = "generateVideo" => NonEmptyString(outcome.videoUrl)

C8_Witness ==
  /\ Finished
  /\ response.kind = "http" /\ ~Ok(response)
  /\ nrequests = 1
  /\ outcome.kind = "threw"

(***************************************************************************)
(* C9, as claimed.  For every string content that contains the substring   *)
(* data:image/png;base64,AAAA, whatever precedes or follows it, and a      *)
(* message with no images array, the returned image reference is exactly   *)
(* that substring.                                                         *)
(***************************************************************************)
C9_ExactSubstringAlways ==
  (/\ Finished /\ ImageEntry /\ Successful
   /\ TheMessage.images.t = "undef"
   /\ TheMessage.content.t = "str"
   /\ Occurrences(TheMessage.content.s) # {})
  => /\ outcome.kind = "returned"
     /\ outcome.imageUrl = Str(Embedded)

(***************************************************************************)
(* C9, amended.  The returned image reference is exactly that substring    *)
(* when no data:image/ precedes it in the content and it is followed by    *)
(* white space, a quote or the end of the content.                         *)
(***************************************************************************)
C9_ExactSubstringWhenDelimited ==
  (/\ Finished /\ ImageEntry /\ Successful
   /\ TheMessage.images.t = "undef"
   /\ TheMessage.content.t = "str"
   /\ \E i \in Occurrences(TheMessage.content.s) :
        /\ \A k \in 1..(i - 1) : TheMessage.content.s[k] # DATA
        /\ \/ i + 3 = Len(TheMessage.content.s)
           \/ TheMessage.content.s[i + 4] \in {" ", "\"", "'"})
  => /\ outcome.kind = "returned"
     /\ outcome.imageUrl = Str(Embedded)

C9_Witness ==
  /\ Finished /\ ImageEntry /\ Successful
  /\ TheMessage.images.t = "undef"
  /\ TheMessage.content.t = "str"
  /\ Len(TheMessage.content.s) > Len(Embedded)
  /\ Occurrences(TheMessage.content.s) # {}
  /\ outcome.kind = "returned"
  /\ outcome.imageUrl = Str(Embedded)

(***************************************************************************)
(* C10.  In the content array editImage sends, the primary image part is   *)
(* first; the mask part, if a mask is present, is second; the secondary    *)
(* image part, if present, follows them; the single text part is last:     *)
(* 2 + (mask present) + (secondary present) parts in all.  A mask is       *)
(* present when it is a non-empty string.                                  *)
(***************************************************************************)
C10_ContentPartOrder ==
  (pc = "awaiting" /\ entry = "editImage") =>
     LET c == request.content
         m == IF NonEmptyString(args.maskBase64) THEN 1 ELSE 0
         x == IF args.secondaryImage.present THEN 1 ELSE 0
     IN  /\ Len(c) = 2 + m + x
         /\ c[1] = ImagePart(<<"data:">> \o args.mimeType \o <<";base64,">> \o args.base64ImageData)
         /\ m = 1 => c[2] = ImagePart(<<"data:", "image/png", ";base64,">> \o args.maskBase64.s)
         /\ x = 1 => c[2 + m] = ImagePart(<<"data:">> \o args.secondaryImage.mimeType
                                          \o <<";base64,">> \o args.secondaryImage.base64)
         /\ c[Len(c)].type = "text"
         /\ Cardinality({i \in 1..Len(c) : c[i].type = "text"}) = 1

C10_Witness ==
  /\ pc = "awaiting" /\ entry = "editImage"
  /\ NonEmptyString(args.maskBase64)
  /\ args.secondaryImage.present
  /\ Len(request.content) = 4
  /\ request.content[4].type = "text"

====
